---------------------------- MODULE Spec2Model ----------------------------
(***************************************************************************)
(* A model of the developer-workflow scripts of ModulesOnRails:            *)
(*   scripts/clearPackages.py, scripts/setup.py, scripts/publish.py,       *)
(*   scripts/runTests.py, scripts/generateReadMe.py.                       *)
(*                                                                         *)
(* Text is a sequence of symbols.  A symbol is one character, or a word    *)
(* that the code only ever matches as a whole (the key "version").  The    *)
(* filesystem is a function from absolute paths (sequences of names) to    *)
(* nodes; a script is a sequential process whose position is pc.           *)
(***************************************************************************)
EXTENDS Integers, Sequences, FiniteSets, TLC

VARIABLES
    script,     \* the entry point (or function harness) that is running
    pc,         \* the position of the process in its code
    fs,         \* the filesystem: path -> node
    cwd,        \* the working directory of the process
    args,       \* sys.argv[1:]
    queue,      \* what is left of sorted(SRC_DIR.iterdir()) in main's for loop
    loc,        \* the local variables of the running function
    out,        \* the messages printed so far
    log,        \* the external effects so far: subprocesses run, files written or deleted
    exit        \* "running", or how the process ended: "0", "1", or "crash"

vars == <<script, pc, fs, cwd, args, queue, loc, out, log, exit>>

-----------------------------------------------------------------------------
(* Text *)

DQ == "\""
NL == "\n"
SP == " "
EQ == "="
DOT == "."
BT == "backtick"

DigitChars == <<"0", "1", "2", "3", "4", "5", "6", "7", "8", "9">>

IsDigit(c) == \E i \in 1..Len(DigitChars) : DigitChars[i] = c

DigitVal(c) == (CHOOSE i \in 1..Len(DigitChars) : DigitChars[i] = c) - 1

\* The index of the first occurrence of symbol c in s at or after position from, 0 when none.
FindSym(s, c, from) ==
    IF \E i \in from..Len(s) : s[i] = c
    THEN CHOOSE i \in from..Len(s) : s[i] = c /\ \A j \in from..(i - 1) : s[j] # c
    ELSE 0

\* str.split(sep) for a one-symbol separator: every separator splits, empty parts are kept.
RECURSIVE Split(_, _)
Split(s, sep) ==
    LET i == FindSym(s, sep, 1)
    IN  IF i = 0 THEN <<s>>
        ELSE <<SubSeq(s, 1, i - 1)>> \o Split(SubSeq(s, i + 1, Len(s)), sep)

\* The texts int() accepts, within the alphabet of the model: one or more decimal digits.
IsIntLiteral(s) == Len(s) > 0 /\ \A i \in 1..Len(s) : IsDigit(s[i])

\* int(s) of a digit string (leading zeros allowed, as int() allows them).
RECURSIVE IntOf(_)
IntOf(s) ==
    IF Len(s) = 0 THEN 0
    ELSE 10 * IntOf(SubSeq(s, 1, Len(s) - 1)) + DigitVal(s[Len(s)])

\* f"{n}" of a non-negative integer: decimal, no leading zeros.
RECURSIVE Str(_)
Str(n) ==
    IF n < 10 THEN <<DigitChars[n + 1]>>
    ELSE Str(n \div 10) \o <<DigitChars[(n % 10) + 1]>>

\* Whether text pat occurs in s at position i.
MatchAt(s, pat, i) ==
    /\ i >= 1
    /\ i + Len(pat) - 1 <= Len(s)
    /\ \A k \in 1..Len(pat) : s[i + k - 1] = pat[k]

\* str.replace(old, new) from position i on: every non-overlapping occurrence, left to right.
RECURSIVE ReplaceFrom(_, _, _, _)
ReplaceFrom(s, old, new, i) ==
    IF i > Len(s) THEN <<>>
    ELSE IF Len(old) > 0 /\ MatchAt(s, old, i)
         THEN new \o ReplaceFrom(s, old, new, i + Len(old))
         ELSE <<s[i]>> \o ReplaceFrom(s, old, new, i + 1)

Replace(s, old, new) == ReplaceFrom(s, old, new, 1)

-----------------------------------------------------------------------------
(* publish.py: the version functions *)

Ok(v) == [exc |-> "none", value |-> v]
Raise(e) == [exc |-> e, value |-> <<>>]

\* int(parts[0]), int(parts[1]), int(parts[2]) evaluated left to right: the exception of
\* the first component that is missing (IndexError) or not a number (ValueError).
RECURSIVE FirstParseError(_, _)
FirstParseError(parts, i) ==
    IF i > 3 THEN "none"
    ELSE IF i > Len(parts) THEN "IndexError"
    ELSE IF ~IsIntLiteral(parts[i]) THEN "ValueError"
    ELSE FirstParseError(parts, i + 1)

FormatVersion(major, minor, patch) ==
    Str(major) \o <<DOT>> \o Str(minor) \o <<DOT>> \o Str(patch)

BumpMinor_NoReset(major, minor, patch) == FormatVersion(major, minor + 1, patch)

BumpMajor(major, minor, patch) == FormatVersion(major + 1, 0, 0)

BumpMinor(major, minor, patch) == FormatVersion(major, minor + 1, 0)

BumpPatch(major, minor, patch) == FormatVersion(major, minor, patch + 1)

increment_version(version, increment_type) ==
    LET parts == Split(version, DOT)
        err == FirstParseError(parts, 1)
    IN  IF err # "none" THEN Raise(err)
        ELSE LET major == IntOf(parts[1])
                 minor == IntOf(parts[2])
                 patch == IntOf(parts[3])
             IN  CASE increment_type = "major" -> Ok(BumpMajor(major, minor, patch))
                   [] increment_type = "minor" -> Ok(BumpMinor(major, minor, patch))
                   [] increment_type = "patch" -> Ok(BumpPatch(major, minor, patch))
                   [] OTHER -> Raise("ValueError")


\* Optional[str]: None is a text no manifest holds.
None == <<"<None>">>

IsSpace(c) == c = SP \/ c = NL

\* Where \s* starting at i stops: the first position at or after i that holds no whitespace.
RECURSIVE SkipSpace(_, _)
SkipSpace(s, i) ==
    IF i <= Len(s) /\ IsSpace(s[i]) THEN SkipSpace(s, i + 1) ELSE i

\* ^ under re.MULTILINE: the start of the text and the position after every newline.
IsLineStart(s, i) == i = 1 \/ (i > 1 /\ i - 1 <= Len(s) /\ s[i - 1] = NL)

VersionKey == <<"version">>

\* The group of ^version\s*=\s*"([^"]+)" matched at position i, None when it does not match.
VersionMatchAt(s, i) ==
    IF ~(IsLineStart(s, i) /\ MatchAt(s, VersionKey, i)) THEN None
    ELSE LET j == SkipSpace(s, i + Len(VersionKey))
         IN  IF j > Len(s) \/ s[j] # EQ THEN None
             ELSE LET k == SkipSpace(s, j + 1)
                  IN  IF k > Len(s) \/ s[k] # DQ THEN None
                      ELSE LET e == FindSym(s, DQ, k + 1)
                           IN  IF e = 0 \/ e = k + 1 THEN None
                               ELSE SubSeq(s, k + 1, e - 1)

\* re.search: the leftmost match.
get_current_version(content) ==
    IF \E i \in 1..Len(content) : VersionMatchAt(content, i) # None
    THEN LET i == CHOOSE i \in 1..Len(content) :
                    /\ VersionMatchAt(content, i) # None
                    /\ \A j \in 1..(i - 1) : VersionMatchAt(content, j) = None
         IN  VersionMatchAt(content, i)
    ELSE None

\* f'version = "{v}"'
VersionLine(v) == VersionKey \o <<SP, EQ, SP, DQ>> \o v \o <<DQ>>

update_version(content, old_version, new_version) ==
    Replace(content, VersionLine(old_version), VersionLine(new_version))

-----------------------------------------------------------------------------
(* Inputs of the version functions *)

\* The longest version text, in dot-separated components.
MaxParts == 4

\* The most lines of a manifest.
MaxLines == 2

Components ==
    { <<"0">>, <<"1">>, <<"2">>, <<"4">>, <<"9">>, <<"0", "9">>, <<"9", "9">>,
      <<>>, <<"a">> }

RECURSIVE Join(_, _)
Join(parts, sep) ==
    IF Len(parts) = 0 THEN <<>>
    ELSE IF Len(parts) = 1 THEN parts[1]
    ELSE parts[1] \o <<sep>> \o Join(Tail(parts), sep)

\* The component lists a version text is joined from.
VersionParts == UNION { [1..n -> Components] : n \in 2..MaxParts }

IncrementTypes == {"major", "minor", "patch", "build"}

\* The numbers a version component can stand for.
Nums == {0, 1, 2, 4, 9, 99}

NoFs == <<>>
Root == <<>>

IdleInit ==
    /\ fs = NoFs
    /\ cwd = Root
    /\ args = {}
    /\ queue = <<>>
    /\ out = <<>>
    /\ log = <<>>
    /\ exit = "running"

InitIncrement ==
    /\ script = "increment_version"
    /\ pc = "call"
    /\ \E parts \in VersionParts, t \in IncrementTypes :
          loc = [parts |-> parts, version |-> Join(parts, DOT), increment_type |-> t,
                 result |-> Raise("pending")]
    /\ IdleInit

CallIncrement ==
    /\ script = "increment_version"
    /\ pc = "call"
    /\ loc' = [loc EXCEPT !.result = increment_version(loc.version, loc.increment_type)]
    /\ pc' = "returned"
    /\ UNCHANGED <<script, fs, cwd, args, queue, out, log, exit>>

SpecIncrement == InitIncrement /\ [][CallIncrement]_vars

\* The number a component text is the decimal numeral of, among Nums.
IsNumeral(c) == \E n \in Nums : Str(n) = c
NumberOf(c) == CHOOSE n \in Nums : Str(n) = c

\* C1: for every version "M.m.p" of three non-negative integers, increment_version gives
\* "M.m.(p+1)" for patch, "M.(m+1).0" for minor and "(M+1).0.0" for major.
C1_IncrementRule ==
    (/\ script = "increment_version" /\ pc = "returned"
     /\ Len(loc.parts) = 3
     /\ \A i \in 1..3 : IsNumeral(loc.parts[i])) =>
        LET M == NumberOf(loc.parts[1])
            m == NumberOf(loc.parts[2])
            p == NumberOf(loc.parts[3])
        IN  /\ loc.increment_type = "patch" =>
                   loc.result = Ok(Str(M) \o <<DOT>> \o Str(m) \o <<DOT>> \o Str(p + 1))
            /\ loc.increment_type = "minor" =>
                   loc.result = Ok(Str(M) \o <<DOT>> \o Str(m + 1) \o <<DOT, "0">>)
            /\ loc.increment_type = "major" =>
                   loc.result = Ok(Str(M + 1) \o <<DOT, "0", DOT, "0">>)

\* The spec's examples: 1.4.9 + minor = 1.5.0 (and 2.9.9 + major = 3.0.0 is reached alike).
C1_Witness ==
    /\ script = "increment_version" /\ pc = "returned"
    /\ loc.version = <<"1", ".", "4", ".", "9">>
    /\ loc.increment_type = "minor"
    /\ loc.result = Ok(<<"1", ".", "5", ".", "0">>)

-----------------------------------------------------------------------------
(* Manifests: writing a version and reading it back *)

V100 == <<"1", ".", "0", ".", "0">>
V101 == <<"1", ".", "0", ".", "1">>
V200 == <<"2", ".", "0", ".", "0">>

\* The lines of a manifest that hold version v: the layout update_version writes, two
\* other spacings of it, and a longer key that ends in "version".
LinesOf(v) ==
    { VersionLine(v),
      VersionKey \o <<EQ, DQ>> \o v \o <<DQ>>,
      VersionKey \o <<SP, SP, EQ, SP, DQ>> \o v \o <<DQ>>,
      <<"wally_">> \o VersionLine(v) }

OtherLines == { <<"[", "package", "]">>, <<"name", SP, EQ, SP, DQ, "n", DQ>> }

ManifestLines == LinesOf(V100) \cup LinesOf(V101) \cup OtherLines

Manifests ==
    { Join(ls, NL) : ls \in UNION { [1..n -> ManifestLines] : n \in 1..MaxLines } }

InitRoundTrip ==
    /\ script = "round_trip"
    /\ pc = "read"
    /\ \E m \in Manifests, x \in {V101, V200} :
          loc = [content |-> m, current_version |-> None, new_version |-> x,
                 reread |-> None]
    /\ IdleInit

\* current_version = get_current_version(wally_toml)
ReadVersion ==
    /\ script = "round_trip"
    /\ pc = "read"
    /\ loc' = [loc EXCEPT !.current_version = get_current_version(loc.content)]
    /\ pc' = IF get_current_version(loc.content) = None THEN "no_version" ELSE "update"
    /\ UNCHANGED <<script, fs, cwd, args, queue, out, log, exit>>

\* update_version(wally_toml, current_version, new_version)
WriteVersion ==
    /\ script = "round_trip"
    /\ pc = "update"
    /\ loc' = [loc EXCEPT !.content =
                    update_version(loc.content, loc.current_version, loc.new_version)]
    /\ pc' = "reread"
    /\ UNCHANGED <<script, fs, cwd, args, queue, out, log, exit>>

\* get_current_version(wally_toml) once more
ReReadVersion ==
    /\ script = "round_trip"
    /\ pc = "reread"
    /\ loc' = [loc EXCEPT !.reread = get_current_version(loc.content)]
    /\ pc' = "done"
    /\ UNCHANGED <<script, fs, cwd, args, queue, out, log, exit>>

SpecRoundTrip == InitRoundTrip /\ [][ReadVersion \/ WriteVersion \/ ReReadVersion]_vars

\* C2: for every manifest get_current_version reads a version V from, and every X,
\* update_version(manifest, V, X) followed by get_current_version(manifest) yields X.
C2_RoundTrip ==
    (script = "round_trip" /\ pc = "done") => loc.reread = loc.new_version

-----------------------------------------------------------------------------
(* The filesystem *)

Dir == [kind |-> "dir", data |-> <<>>]
File(data) == [kind |-> "file", data |-> data]

exists(f, p) == p \in DOMAIN f
is_dir(f, p) == exists(f, p) /\ f[p].kind = "dir"
is_file(f, p) == exists(f, p) /\ f[p].kind = "file"

IsPrefix(p, q) == Len(p) <= Len(q) /\ SubSeq(q, 1, Len(p)) = p

parent(p) == IF Len(p) = 0 THEN p ELSE SubSeq(p, 1, Len(p) - 1)
name(p) == p[Len(p)]

\* Path.iterdir(): the entries of directory p.
iterdir(f, p) == { q \in DOMAIN f : Len(q) = Len(p) + 1 /\ IsPrefix(p, q) }

Restrict(f, S) == [q \in S |-> f[q]]

\* shutil.rmtree(p): p and everything below it.
rmtree(f, p) == Restrict(f, { q \in DOMAIN f : ~IsPrefix(p, q) })

\* Path.unlink() / Path.rmdir(): the one entry p.
unlink(f, p) == Restrict(f, DOMAIN f \ {p})

\* Path.write_text(data) / open(p, "w").write(data): p is a file that holds data.
write_text(f, p, data) ==
    [q \in DOMAIN f \cup {p} |-> IF q = p THEN File(data) ELSE f[q]]

\* shutil.move(p, dest) where dest does not exist: the subtree of p renamed to dest.
move(f, p, dest) ==
    LET moved == { q \in DOMAIN f : IsPrefix(p, q) }
        target(q) == dest \o SubSeq(q, Len(p) + 1, Len(q))
    IN  [r \in (DOMAIN f \ moved) \cup { target(q) : q \in moved } |->
            IF \E q \in moved : target(q) = r
            THEN f[CHOOSE q \in moved : target(q) = r]
            ELSE f[r]]

-----------------------------------------------------------------------------
(* clearPackages.py, setup.py, publish.py: clear_package_dir *)

SRC_DIR == <<"lib">>
IGNORE_LIST == {"src", "default.project.json", "wally.toml"}

\* The body of the loop: an item whose name is not listed is removed, a directory with
\* its tree and anything else alone.
RemoveItem_UnlinkOnly(f, item) ==
    IF name(item) \notin IGNORE_LIST THEN unlink(f, item) ELSE f

RemoveItem(f, item) ==
    IF name(item) \notin IGNORE_LIST
    THEN IF is_dir(f, item) THEN rmtree(f, item) ELSE unlink(f, item)
    ELSE f

RECURSIVE ClearItems(_, _)
ClearItems(f, items) ==
    IF items = {} THEN f
    ELSE LET item == CHOOSE x \in items : TRUE
         IN  ClearItems(RemoveItem(f, item), items \ {item})

\* A loop that ends after the first removal.
clear_package_dir_FirstOnly(f, package_dir) ==
    LET doomed == { x \in iterdir(f, package_dir) : name(x) \notin IGNORE_LIST }
    IN  IF doomed = {} THEN f ELSE RemoveItem(f, CHOOSE x \in doomed : TRUE)

clear_package_dir(f, package_dir) == ClearItems(f, iterdir(f, package_dir))

-----------------------------------------------------------------------------
(* clear_package_dir on one directory, called twice *)

\* The deepest tree below an entry of the directory.
MaxDepth == 2

EntryNames == {"src", "wally.toml", "default.project.json", "Packages", "wally.lock"}

PkgDir == <<"pkg">>

\* A directory at p with a chain of d nested directories, a file in each.
RECURSIVE Tree(_, _)
Tree(p, d) ==
    IF d = 0 THEN {p}
    ELSE {p, p \o <<"f.lua">>} \cup Tree(p \o <<"_Index">>, d - 1)

\* The filesystem with one directory whose entries are given by shape: name -> "absent",
\* "file", or "dir" (a directory with a tree of depth MaxDepth).
FsOfShape(shape) ==
    LET dirs == UNION { Tree(PkgDir \o <<n>>, MaxDepth) :
                        n \in { n \in EntryNames : shape[n] = "dir" } }
        files == { PkgDir \o <<n>> : n \in { n \in EntryNames : shape[n] = "file" } }
        isFile(q) == q \in files \/ (q \notin files /\ name(q) = "f.lua")
    IN  [q \in {PkgDir} \cup dirs \cup files |->
            IF q # PkgDir /\ isFile(q) THEN File(<<name(q)>>) ELSE Dir]

Shapes == [EntryNames -> {"absent", "file", "dir"}]

InitClearDir ==
    /\ script = "clear_package_dir"
    /\ pc = "call"
    /\ \E shape \in Shapes :
          /\ fs = FsOfShape(shape)
          /\ loc = [package_dir |-> PkgDir, before |-> FsOfShape(shape),
                    previous |-> FsOfShape(shape)]
    /\ cwd = Root
    /\ args = {}
    /\ queue = <<>>
    /\ out = <<>>
    /\ log = <<>>
    /\ exit = "running"

CallClear ==
    /\ script = "clear_package_dir"
    /\ pc \in {"call", "once"}
    /\ fs' = clear_package_dir(fs, loc.package_dir)
    /\ loc' = [loc EXCEPT !.previous = fs]
    /\ pc' = IF pc = "call" THEN "once" ELSE "twice"
    /\ UNCHANGED <<script, cwd, args, queue, out, log, exit>>

SpecClearDir == InitClearDir /\ [][CallClear]_vars

\* C3: clear_package_dir is idempotent: a second run in a row deletes nothing, and what
\* remains are the same allow-listed entries.
C3_Idempotent ==
    (script = "clear_package_dir" /\ pc = "twice") =>
        /\ fs = loc.previous
        /\ \A q \in iterdir(fs, loc.package_dir) :
              name(q) \in {"src", "default.project.json", "wally.toml"}

\* A directory with two entries outside the allow-list and one inside, cleared twice.
C3_Witness ==
    /\ script = "clear_package_dir" /\ pc = "twice"
    /\ is_dir(loc.before, PkgDir \o <<"Packages">>)
    /\ is_file(loc.before, PkgDir \o <<"wally.lock">>)
    /\ is_file(fs, PkgDir \o <<"wally.toml">>)

\* C7: after clear_package_dir(d) the entries of d are exactly those it had before whose
\* names are src, default.project.json or wally.toml; every other entry is gone with its
\* whole tree, and the kept entries and what is below them are unchanged.
C7_ClearPost ==
    (script = "clear_package_dir" /\ pc = "once") =>
        LET d == loc.package_dir
            kept == { q \in DOMAIN loc.before :
                        \/ ~IsPrefix(d, q)
                        \/ q = d
                        \/ q[Len(d) + 1] \in {"src", "default.project.json", "wally.toml"} }
        IN  /\ DOMAIN fs = kept
            /\ \A q \in kept : fs[q] = loc.before[q]

\* A directory tree outside the allow-list was removed while src and its tree stayed.
C7_Witness ==
    /\ script = "clear_package_dir" /\ pc = "once"
    /\ exists(loc.before, PkgDir \o <<"Packages", "_Index", "f.lua">>)
    /\ ~exists(fs, PkgDir \o <<"Packages">>)
    /\ exists(fs, PkgDir \o <<"src", "_Index", "f.lua">>)

-----------------------------------------------------------------------------
(* The project tree the scripts run in *)

\* The most entries of the lib directory.
MaxLib == 2

\* The names an entry of lib can have, in the order sorted() puts them.
NameOrder == <<"Alpha", "Beta", "Delta", "Gamma">>
LibNames == { NameOrder[i] : i \in 1..MaxLib }

\* A name that no entry of lib has.
NoSuchName == "Zeta"

ProjRoot == <<"repo">>
ScriptsDir == ProjRoot \o <<"scripts">>
Lib == ProjRoot \o SRC_DIR

mkdir(f, p) == [q \in DOMAIN f \cup {p} |-> IF q = p THEN Dir ELSE f[q]]

\* The tree without lib: the filesystem root, the project directory and scripts/.
BaseFs ==
    write_text(mkdir(mkdir(mkdir(NoFs, Root), ProjRoot), ScriptsDir),
               ScriptsDir \o <<"setup.py">>, <<"setup.py">>)

\* What `wally install` leaves in a package directory that has dependencies.
AddPackages(f, d) ==
    LET f1 == mkdir(f, d \o <<"Packages">>)
        f2 == mkdir(f1, d \o <<"Packages", "_Index">>)
        f3 == write_text(f2, d \o <<"Packages", "_Index", "dep.lua">>, <<"dep">>)
        f4 == write_text(f3, d \o <<"Packages", "Dep.lua">>, <<"link">>)
    IN  write_text(f4, d \o <<"wally.lock">>, <<"lock">>)

\* What an earlier setup left in a package directory: the installed packages moved out of
\* Packages, the lock file, and a project descriptor.
AddInstalled(f, d) ==
    LET f1 == mkdir(f, d \o <<"_Index">>)
        f2 == write_text(f1, d \o <<"_Index", "dep.lua">>, <<"dep">>)
        f3 == write_text(f2, d \o <<"Dep.lua">>, <<"link">>)
        f4 == write_text(f3, d \o <<"wally.lock">>, <<"lock">>)
    IN  write_text(f4, d \o <<"default.project.json">>, <<"descriptor">>)

\* An entry of lib: absent, a file, or a package directory with src/, with or without a
\* manifest (None: no wally.toml), with or without installed packages.
Absent == [kind |-> "absent", manifest |-> None, installed |-> FALSE]
Stray == [kind |-> "file", manifest |-> None, installed |-> FALSE]
Package(manifest, installed) == [kind |-> "dir", manifest |-> manifest, installed |-> installed]

AddEntry(f, n, e) ==
    LET d == Lib \o <<n>>
    IN  IF e.kind = "absent" THEN f
        ELSE IF e.kind = "file" THEN write_text(f, d, <<"notes">>)
        ELSE LET f1 == mkdir(mkdir(f, d), d \o <<"src">>)
                 f2 == write_text(f1, d \o <<"src", "init.lua">>, <<"init">>)
                 f3 == IF e.manifest = None THEN f2
                       ELSE write_text(f2, d \o <<"wally.toml">>, e.manifest)
             IN  IF e.installed THEN AddInstalled(f3, d) ELSE f3

RECURSIVE AddEntries(_, _, _)
AddEntries(f, entries, names) ==
    IF names = {} THEN f
    ELSE LET n == CHOOSE x \in names : TRUE
         IN  AddEntries(AddEntry(f, n, entries[n]), entries, names \ {n})

\* The project tree with the given entries in lib.
ProjectFs(entries) == AddEntries(mkdir(BaseFs, Lib), entries, DOMAIN entries)

Rank(n) == CHOOSE i \in 1..Len(NameOrder) : NameOrder[i] = n

\* sorted(paths), for entries of one directory: by name.
RECURSIVE Sorted(_)
Sorted(S) ==
    IF S = {} THEN <<>>
    ELSE LET m == CHOOSE x \in S : \A y \in S : Rank(name(x)) <= Rank(name(y))
         IN  <<m>> \o Sorted(S \ {m})

\* The loop of find_project_root: the nearest directory from current_dir upwards, short of
\* the filesystem root, that has a lib directory; None when the loop ends without one.
RECURSIVE FindRoot(_, _)
FindRoot(f, current_dir) ==
    IF current_dir = parent(current_dir) THEN None
    ELSE IF is_dir(f, current_dir \o SRC_DIR) THEN current_dir
    ELSE FindRoot(f, parent(current_dir))

\* The working directory after find_project_root(), which is also what it returns.
find_project_root(f, dir) ==
    IF FindRoot(f, dir) = None THEN dir ELSE FindRoot(f, dir)

\* One external effect: a subprocess that was run (ok: it ended with status 0), or a call
\* that changes the filesystem.
Event(op, cmd, path, ok) == [op |-> op, cmd |-> cmd, path |-> path, ok |-> ok]

\* How a subprocess can end: status 0, a non-zero status (CalledProcessError), or the
\* command is not installed (FileNotFoundError).
Outcomes == {"ok", "failed", "not found"}

\* What run_command prints for an outcome, given its error_msg ("" for None).
RunMessages(cmd, outcome, error_msg) ==
    IF outcome = "ok" THEN <<>>
    ELSE IF outcome = "failed"
         THEN (IF error_msg = "" THEN <<>> ELSE <<"Error: " \o error_msg>>)
         ELSE <<"Error: Command not found - " \o cmd>>

NoLibMessage == "Error: Source directory lib does not exist."

-----------------------------------------------------------------------------
(* clearPackages.py: main *)

\* lines 59 and 125: the package is processed when there are no arguments or it is one.
Selected_ArgsOnly(n) == n \in args

Selected(n) == args = {} \/ n \in args

ArgSets == SUBSET (LibNames \cup {NoSuchName})

\* The entries of lib when clearPackages.py or setup.py starts.
ClearEntries ==
    [LibNames -> {Absent, Stray, Package(VersionLine(V100), FALSE),
                  Package(VersionLine(V100), TRUE)}]

InitClear ==
    /\ script = "clearPackages"
    /\ pc = "start"
    /\ \E entries \in ClearEntries, hasLib \in BOOLEAN :
          /\ fs = IF hasLib THEN ProjectFs(entries) ELSE BaseFs
          /\ loc = [fs0 |-> IF hasLib THEN ProjectFs(entries) ELSE BaseFs]
    /\ cwd \in {ProjRoot, ScriptsDir}
    /\ args \in ArgSets
    /\ queue = <<>>
    /\ out = <<>>
    /\ log = <<>>
    /\ exit = "running"

\* lines 41-53: find the root, check lib, list it.
Clear_Start ==
    /\ script = "clearPackages" /\ pc = "start"
    /\ LET root == find_project_root(fs, cwd)
       IN  /\ cwd' = root
           /\ IF ~is_dir(fs, root \o SRC_DIR)
              THEN /\ out' = out \o <<NoLibMessage>>
                   /\ exit' = "1"
                   /\ pc' = "done"
                   /\ queue' = queue
              ELSE /\ queue' = Sorted(iterdir(fs, root \o SRC_DIR))
                   /\ pc' = "loop"
                   /\ UNCHANGED <<out, exit>>
    /\ UNCHANGED <<script, fs, args, loc, log>>

\* lines 54-61: an entry that is no directory, or is not among the arguments, is skipped.
Clear_Skip ==
    /\ script = "clearPackages" /\ pc = "loop"
    /\ queue # <<>>
    /\ ~is_dir(fs, Head(queue)) \/ ~Selected(name(Head(queue)))
    /\ queue' = Tail(queue)
    /\ UNCHANGED <<script, pc, fs, cwd, args, loc, out, log, exit>>

\* lines 63-67: the package directory is cleared.
Clear_Package ==
    /\ script = "clearPackages" /\ pc = "loop"
    /\ queue # <<>>
    /\ is_dir(fs, Head(queue)) /\ Selected(name(Head(queue)))
    /\ fs' = clear_package_dir(fs, Head(queue))
    /\ log' = Append(log, Event("clear", "", Head(queue), TRUE))
    /\ queue' = Tail(queue)
    /\ UNCHANGED <<script, pc, cwd, args, loc, out, exit>>

\* lines 72-73
Clear_Done ==
    /\ script = "clearPackages" /\ pc = "loop"
    /\ queue = <<>>
    /\ out' = out \o <<"Packages Removed!">>
    /\ exit' = "0"
    /\ pc' = "done"
    /\ UNCHANGED <<script, fs, cwd, args, queue, loc, log>>

NextClear == Clear_Start \/ Clear_Skip \/ Clear_Package \/ Clear_Done

-----------------------------------------------------------------------------
(* setup.py: main and setup_package *)

InitSetup ==
    /\ script = "setup"
    /\ pc = "start"
    /\ \E entries \in ClearEntries, hasLib \in BOOLEAN :
          /\ fs = IF hasLib THEN ProjectFs(entries) ELSE BaseFs
          /\ loc = [fs0 |-> IF hasLib THEN ProjectFs(entries) ELSE BaseFs,
                    package_dir |-> <<>>, original_dir |-> <<>>]
    /\ cwd = ScriptsDir
    /\ args \in ArgSets
    /\ queue = <<>>
    /\ out = <<>>
    /\ log = <<>>
    /\ exit = "running"

\* lines 107-119: find the root, check lib, list it.
Setup_Start ==
    /\ script = "setup" /\ pc = "start"
    /\ LET root == find_project_root(fs, cwd)
       IN  /\ cwd' = root
           /\ IF ~is_dir(fs, root \o SRC_DIR)
              THEN /\ out' = out \o <<NoLibMessage>>
                   /\ exit' = "1"
                   /\ pc' = "done"
                   /\ queue' = queue
              ELSE /\ queue' = Sorted(iterdir(fs, root \o SRC_DIR))
                   /\ pc' = "loop"
                   /\ UNCHANGED <<out, exit>>
    /\ UNCHANGED <<script, fs, args, loc, log>>

\* lines 120-127
Setup_Skip ==
    /\ script = "setup" /\ pc = "loop"
    /\ queue # <<>>
    /\ ~is_dir(fs, Head(queue)) \/ ~Selected(name(Head(queue)))
    /\ queue' = Tail(queue)
    /\ UNCHANGED <<script, pc, fs, cwd, args, loc, out, log, exit>>

\* lines 54-63: setup_package clears the directory and enters it.
Setup_Clear ==
    /\ script = "setup" /\ pc = "loop"
    /\ queue # <<>>
    /\ is_dir(fs, Head(queue)) /\ Selected(name(Head(queue)))
    /\ fs' = clear_package_dir(fs, Head(queue))
    /\ log' = Append(log, Event("clear", "", Head(queue), TRUE))
    /\ loc' = [loc EXCEPT !.package_dir = Head(queue), !.original_dir = cwd]
    /\ cwd' = Head(queue)
    /\ pc' = "wally_install"
    /\ UNCHANGED <<script, args, queue, out, exit>>

\* lines 65-69: wally install, in the package directory; with dependencies it leaves a
\* Packages directory.  A failure ends setup_package and main.
Setup_WallyInstall ==
    /\ script = "setup" /\ pc = "wally_install"
    /\ \E outcome \in Outcomes :
          /\ log' = Append(log, Event("run", "wally install", cwd, outcome = "ok"))
          /\ out' = out \o RunMessages("wally", outcome, "Failed to install Wally packages.")
          /\ IF outcome = "ok"
             THEN /\ fs' \in {fs, AddPackages(fs, loc.package_dir)}
                  /\ pc' = "sourcemap"
                  /\ exit' = exit
             ELSE /\ fs' = fs
                  /\ pc' = "done"
                  /\ exit' = "1"
    /\ cwd' = loc.original_dir
    /\ UNCHANGED <<script, args, queue, loc>>

\* lines 72-81 and 101: rojo sourcemap writes sourcemap.json; without a Packages directory
\* setup_package returns True and the loop goes on.
Setup_Sourcemap ==
    /\ script = "setup" /\ pc = "sourcemap"
    /\ \E outcome \in Outcomes :
          /\ log' = Append(log, Event("run", "rojo sourcemap", cwd, outcome = "ok"))
          /\ out' = out \o RunMessages("rojo", outcome, "Failed to generate sourcemap.")
          /\ IF outcome = "ok"
             THEN /\ fs' = write_text(fs, cwd \o <<"sourcemap.json">>, <<"sourcemap">>)
                  /\ exit' = exit
                  /\ IF is_dir(fs, loc.package_dir \o <<"Packages">>)
                     THEN pc' = "package_types" /\ queue' = queue
                     ELSE pc' = "loop" /\ queue' = Tail(queue)
             ELSE /\ fs' = fs
                  /\ pc' = "done"
                  /\ exit' = "1"
                  /\ queue' = queue
    /\ UNCHANGED <<script, cwd, args, loc>>

\* lines 83-88: wally-package-types.
Setup_PackageTypes ==
    /\ script = "setup" /\ pc = "package_types"
    /\ \E outcome \in Outcomes :
          /\ log' = Append(log, Event("run", "wally-package-types", cwd, outcome = "ok"))
          /\ out' = out \o RunMessages("wally-package-types", outcome,
                                       "Failed to generate Wally package types.")
          /\ IF outcome = "ok"
             THEN pc' = "move" /\ exit' = exit
             ELSE pc' = "done" /\ exit' = "1"
    /\ UNCHANGED <<script, fs, cwd, args, queue, loc>>

\* lines 92-94: every item of Packages is moved into the package directory (after the
\* clearing no item of that name is there).
RECURSIVE MoveAll(_, _, _)
MoveAll(f, items, package_dir) ==
    IF items = {} THEN f
    ELSE LET item == CHOOSE x \in items : TRUE
         IN  MoveAll(move(f, item, package_dir \o <<name(item)>>), items \ {item},
                     package_dir)

\* lines 90-101: the items are moved, Packages is removed, setup_package returns True.
Setup_Move ==
    /\ script = "setup" /\ pc = "move"
    /\ LET packages_dir == loc.package_dir \o <<"Packages">>
       IN  /\ fs' = unlink(MoveAll(fs, iterdir(fs, packages_dir), loc.package_dir),
                           packages_dir)
           /\ log' = Append(log, Event("move", "", packages_dir, TRUE))
    /\ pc' = "loop"
    /\ queue' = Tail(queue)
    /\ UNCHANGED <<script, cwd, args, loc, out, exit>>

\* lines 132-141: the final sourcemap.
Setup_Final ==
    /\ script = "setup" /\ pc = "loop"
    /\ queue = <<>>
    /\ \E outcome \in Outcomes :
          /\ log' = Append(log, Event("run", "rojo sourcemap", cwd, outcome = "ok"))
          /\ out' = out \o RunMessages("rojo", outcome, "Failed to generate sourcemap.")
                        \o (IF outcome = "ok" THEN <<"Setup complete!  :D">> ELSE <<>>)
          /\ fs' = IF outcome = "ok"
                   THEN write_text(fs, cwd \o <<"sourcemap.json">>, <<"sourcemap">>)
                   ELSE fs
          /\ exit' = IF outcome = "ok" THEN "0" ELSE "1"
    /\ pc' = "done"
    /\ UNCHANGED <<script, cwd, args, queue, loc>>

NextSetup ==
    \/ Setup_Start \/ Setup_Skip \/ Setup_Clear \/ Setup_WallyInstall
    \/ Setup_Sourcemap \/ Setup_PackageTypes \/ Setup_Move \/ Setup_Final

-----------------------------------------------------------------------------
(* publish.py: main *)

V1234 == <<"1", ".", "2", ".", "3", ".", "4">>
V12 == <<"1", ".", "2">>
V1a0 == <<"1", ".", "a", ".", "0">>

PackageHeader == <<"[", "package", "]", NL>>

\* The manifests of the package to publish: a version of three numbers, of four and of two
\* components, one with a component that is no number, a version written without spaces
\* around "=", and a manifest without a version.
PublishManifests ==
    { PackageHeader \o VersionLine(v) : v \in {V100, V1234, V12, V1a0} }
    \cup { PackageHeader \o VersionKey \o <<EQ, DQ>> \o V100 \o <<DQ>>,
           PackageHeader \o <<"name", SP, EQ, SP, DQ, "n", DQ>> }

\* The first name of lib is the package with any of these manifests (or none); the other
\* entries of lib are absent, a file, or a plain package.
PublishEntries ==
    { e \in [LibNames -> {Absent, Stray}
                         \cup { Package(m, i) : m \in PublishManifests \cup {None},
                                                i \in BOOLEAN }] :
        \A n \in LibNames \ {NameOrder[1]} :
            e[n] \in {Absent, Stray, Package(PackageHeader \o VersionLine(V100), FALSE)} }

Answers == {"y", "n"}

InitPublish ==
    /\ script = "publish"
    /\ pc = "start"
    /\ \E entries \in PublishEntries, hasLib \in BOOLEAN :
          /\ fs = IF hasLib THEN ProjectFs(entries) ELSE BaseFs
          /\ loc = [fs0 |-> IF hasLib THEN ProjectFs(entries) ELSE BaseFs,
                    original_dir |-> <<>>, package_name |-> "", package_dir |-> <<>>,
                    current_version |-> None, should_increment |-> "",
                    increment_type |-> "", publish |-> "", published |-> FALSE]
    /\ cwd = ScriptsDir
    /\ args = {}
    /\ queue = <<>>
    /\ out = <<>>
    /\ log = <<>>
    /\ exit = "running"

\* lines 90-95
Publish_Start ==
    /\ script = "publish" /\ pc = "start"
    /\ LET root == find_project_root(fs, cwd)
       IN  /\ cwd' = root
           /\ loc' = [loc EXCEPT !.original_dir = root]
           /\ IF ~is_dir(fs, root \o SRC_DIR)
              THEN /\ out' = out \o <<NoLibMessage>>
                   /\ exit' = "1"
                   /\ pc' = "done"
              ELSE /\ pc' = "ask_name"
                   /\ UNCHANGED <<out, exit>>
    /\ UNCHANGED <<script, fs, args, queue, log>>

\* lines 98-116: the package name is read; the directory, the manifest and its version
\* must be there.
Publish_Name ==
    /\ script = "publish" /\ pc = "ask_name"
    /\ \E package_name \in LibNames \cup {NoSuchName} :
          LET package_dir == cwd \o SRC_DIR \o <<package_name>>
              wally_toml == package_dir \o <<"wally.toml">>
              current_version == IF is_file(fs, wally_toml)
                                 THEN get_current_version(fs[wally_toml].data)
                                 ELSE None
              error == IF ~is_dir(fs, package_dir)
                       THEN <<"Package directory does not exist.">>
                       ELSE IF ~is_file(fs, wally_toml)
                       THEN <<"Could not find wally.toml">>
                       ELSE IF current_version = None
                       THEN <<"Could not find the version number in wally.toml.">>
                       ELSE <<>>
          IN  /\ loc' = [loc EXCEPT !.package_name = package_name,
                                    !.package_dir = package_dir,
                                    !.current_version = current_version]
              /\ out' = out \o error
              /\ IF error # <<>>
                 THEN exit' = "1" /\ pc' = "done"
                 ELSE exit' = exit /\ pc' = "ask_increment"
    /\ UNCHANGED <<script, fs, cwd, args, queue, log>>

\* lines 119-121
Publish_AskIncrement ==
    /\ script = "publish" /\ pc = "ask_increment"
    /\ \E answer \in Answers :
          /\ loc' = [loc EXCEPT !.should_increment = answer]
          /\ pc' = IF answer = "y" THEN "ask_type" ELSE "ask_publish"
    /\ UNCHANGED <<script, fs, cwd, args, queue, out, log, exit>>

\* lines 122-130: the new version is computed and written; a ValueError is printed and
\* main returns 1; any other exception leaves main (a traceback, exit status 1).
Publish_Increment ==
    /\ script = "publish" /\ pc = "ask_type"
    /\ \E increment_type \in IncrementTypes :
          LET r == increment_version(loc.current_version, increment_type)
              wally_toml == loc.package_dir \o <<"wally.toml">>
          IN  /\ loc' = [loc EXCEPT !.increment_type = increment_type]
              /\ IF r.exc = "none"
                 THEN /\ fs' = write_text(fs, wally_toml,
                                 update_version(fs[wally_toml].data, loc.current_version,
                                                r.value))
                      /\ log' = Append(log, Event("write", "", wally_toml, TRUE))
                      /\ out' = out \o <<"Version updated in wally.toml.">>
                      /\ exit' = exit
                      /\ pc' = "ask_publish"
                 ELSE /\ out' = out \o <<r.exc>>
                      /\ exit' = IF r.exc = "ValueError" THEN "1" ELSE "crash"
                      /\ pc' = "done"
                      /\ UNCHANGED <<fs, log>>
    /\ UNCHANGED <<script, cwd, args, queue>>

\* lines 133-136
Publish_AskPublish ==
    /\ script = "publish" /\ pc = "ask_publish"
    /\ \E answer \in Answers :
          /\ loc' = [loc EXCEPT !.publish = answer]
          /\ IF answer # "y"
             THEN /\ out' = out \o <<"Publishing skipped.">>
                  /\ exit' = "0"
                  /\ pc' = "done"
             ELSE /\ pc' = "clear"
                  /\ UNCHANGED <<out, exit>>
    /\ UNCHANGED <<script, fs, cwd, args, queue, log>>

\* lines 138-139
Publish_Clear ==
    /\ script = "publish" /\ pc = "clear"
    /\ fs' = clear_package_dir(fs, loc.package_dir)
    /\ log' = Append(log, Event("clear", "", loc.package_dir, TRUE))
    /\ pc' = "write_descriptor"
    /\ UNCHANGED <<script, cwd, args, queue, loc, out, exit>>

Descriptor == loc.package_dir \o <<"default.project.json">>

\* lines 142-147: default.project.json is written, the package directory entered.
Publish_WriteDescriptor ==
    /\ script = "publish" /\ pc = "write_descriptor"
    /\ fs' = write_text(fs, Descriptor, <<"descriptor of ", loc.package_name>>)
    /\ log' = Append(log, Event("write", "", Descriptor, TRUE))
    /\ cwd' = loc.package_dir
    /\ pc' = "run_publish"
    /\ UNCHANGED <<script, args, queue, loc, out, exit>>

\* line 149, lines 77-86: subprocess.run starts `wally publish`, or finds no wally.
Publish_Invoke ==
    /\ script = "publish" /\ pc = "run_publish"
    /\ \E found \in BOOLEAN :
          IF found
          THEN /\ pc' = "publishing"
               /\ UNCHANGED <<out, log>>
          ELSE /\ pc' = "cleanup"
               /\ log' = Append(log, Event("run", "wally publish", cwd, FALSE))
               /\ out' = out \o RunMessages("wally", "not found", "")
                             \o <<"Package publishing failed.">>
    /\ UNCHANGED <<script, fs, cwd, args, queue, loc, exit>>

\* lines 149-152: `wally publish` ends, with status 0 or not.
Publish_Returns ==
    /\ script = "publish" /\ pc = "publishing"
    /\ \E outcome \in {"ok", "failed"} :
          /\ log' = Append(log, Event("run", "wally publish", cwd, outcome = "ok"))
          /\ out' = out \o <<IF outcome = "ok" THEN "Package published successfully."
                                               ELSE "Package publishing failed.">>
          /\ loc' = [loc EXCEPT !.published = (outcome = "ok")]
    /\ pc' = "cleanup"
    /\ UNCHANGED <<script, fs, cwd, args, queue, exit>>

DeleteDescriptor_OnSuccess(f, default_project, published) ==
    IF published THEN unlink(f, default_project) ELSE f

\* line 156: default_project.unlink(), whatever became of the publishing.
DeleteDescriptor(f, default_project, published) == unlink(f, default_project)

\* lines 155-157
Publish_Cleanup ==
    /\ script = "publish" /\ pc = "cleanup"
    /\ cwd' = loc.original_dir
    /\ fs' = DeleteDescriptor(fs, Descriptor, loc.published)
    /\ log' = Append(log, Event("unlink", "", Descriptor, TRUE))
    /\ out' = out \o <<"default.project.json deleted.">>
    /\ pc' = "rebuild"
    /\ UNCHANGED <<script, args, queue, loc, exit>>

\* What a run of `scripts/setup.py <package>` makes of the filesystem: with status 0 the
\* package is cleared, its dependencies installed and moved out of Packages (if it has
\* any) and sourcemap.json written; with another status it stopped somewhere before.
SetupEffects(f, root, package_dir, ok) ==
    LET cleared == clear_package_dir(f, package_dir)
        installed == AddPackages(cleared, package_dir)
        moved == unlink(MoveAll(installed, iterdir(installed, package_dir \o <<"Packages">>),
                                package_dir),
                        package_dir \o <<"Packages">>)
        sourcemap(g) == write_text(g, root \o <<"sourcemap.json">>, <<"sourcemap">>)
    IN  IF ok THEN {sourcemap(cleared), sourcemap(moved)}
        ELSE {f, cleared, installed}

\* lines 160-163: setup.py is run for the package; main returns 0.
Publish_Rebuild ==
    /\ script = "publish" /\ pc = "rebuild"
    /\ \E outcome \in {"ok", "failed"} :
          /\ log' = Append(log, Event("run", "scripts/setup.py", cwd, outcome = "ok"))
          /\ fs' \in SetupEffects(fs, cwd, loc.package_dir, outcome = "ok")
    /\ exit' = "0"
    /\ pc' = "done"
    /\ UNCHANGED <<script, cwd, args, queue, loc, out>>

NextPublish ==
    \/ Publish_Start \/ Publish_Name \/ Publish_AskIncrement \/ Publish_Increment
    \/ Publish_AskPublish \/ Publish_Clear \/ Publish_WriteDescriptor
    \/ Publish_Invoke \/ Publish_Returns \/ Publish_Cleanup \/ Publish_Rebuild

-----------------------------------------------------------------------------
(* runTests.py: main *)

TEST_PLACE == <<"TestEz Companion.rbxl">>

InitTests ==
    /\ script = "runTests"
    /\ pc = "start"
    /\ \E hasLib \in BOOLEAN, hasPlace \in BOOLEAN :
          LET f == IF hasLib
                   THEN ProjectFs([n \in LibNames |-> Package(VersionLine(V100), FALSE)])
                   ELSE BaseFs
              g == IF hasPlace THEN write_text(f, ProjRoot \o TEST_PLACE, <<"place">>) ELSE f
          IN  fs = g /\ loc = [fs0 |-> g]
    /\ cwd \in {ProjRoot, ScriptsDir}
    /\ args = {}
    /\ queue = <<>>
    /\ out = <<>>
    /\ log = <<>>
    /\ exit = "running"

\* line 44
Tests_Start ==
    /\ script = "runTests" /\ pc = "start"
    /\ cwd' = find_project_root(fs, cwd)
    /\ pc' = "submodule_init"
    /\ UNCHANGED <<script, fs, args, queue, loc, out, log, exit>>

\* line 47: git submodule init; what run_command returns is not used.
Tests_SubmoduleInit ==
    /\ script = "runTests" /\ pc = "submodule_init"
    /\ \E outcome \in Outcomes :
          /\ log' = Append(log, Event("run", "git submodule init", cwd, outcome = "ok"))
          /\ out' = out \o RunMessages("git", outcome, "")
    /\ pc' = "submodule_update"
    /\ UNCHANGED <<script, fs, cwd, args, queue, loc, exit>>

\* line 48: git submodule update; what run_command returns is not used.
Tests_SubmoduleUpdate ==
    /\ script = "runTests" /\ pc = "submodule_update"
    /\ \E outcome \in Outcomes :
          /\ log' = Append(log, Event("run", "git submodule update", cwd, outcome = "ok"))
          /\ out' = out \o RunMessages("git", outcome, "")
    /\ pc' = "test_place"
    /\ UNCHANGED <<script, fs, cwd, args, queue, loc, exit>>

\* lines 51-54: without a test place, rojo build is run to make one.
Tests_Build ==
    /\ script = "runTests" /\ pc = "test_place"
    /\ ~is_file(fs, cwd \o TEST_PLACE)
    /\ \E outcome \in Outcomes :
          /\ log' = Append(log, Event("run", "rojo build", cwd, outcome = "ok"))
          /\ out' = out \o RunMessages("rojo", outcome, "")
          /\ fs' = IF outcome = "ok" THEN write_text(fs, cwd \o TEST_PLACE, <<"place">>)
                   ELSE fs
    /\ pc' = "ask_studio"
    /\ UNCHANGED <<script, cwd, args, queue, loc, exit>>

\* line 52: the test place is there.
Tests_NoBuild ==
    /\ script = "runTests" /\ pc = "test_place"
    /\ is_file(fs, cwd \o TEST_PLACE)
    /\ pc' = "ask_studio"
    /\ UNCHANGED <<script, fs, cwd, args, queue, loc, out, log, exit>>

\* lines 57-70: on "y" Roblox Studio is started if find_roblox_studio finds it; main
\* returns 0.
Tests_AskStudio ==
    /\ script = "runTests" /\ pc = "ask_studio"
    /\ \E user_input \in Answers, found \in BOOLEAN :
          IF user_input = "y" /\ found
          THEN /\ log' = Append(log, Event("popen", "RobloxStudio", cwd, TRUE))
               /\ out' = out
          ELSE IF user_input = "y"
          THEN /\ out' = out \o <<"Error: Could not find Roblox Studio installation.">>
               /\ log' = log
          ELSE UNCHANGED <<out, log>>
    /\ exit' = "0"
    /\ pc' = "done"
    /\ UNCHANGED <<script, fs, cwd, args, queue, loc>>

NextTests ==
    \/ Tests_Start \/ Tests_SubmoduleInit \/ Tests_SubmoduleUpdate
    \/ Tests_Build \/ Tests_NoBuild \/ Tests_AskStudio

-----------------------------------------------------------------------------
(* generateReadMe.py *)

\* str.strip(chars): the symbols of chars removed from both ends.
RECURSIVE StripLeft(_, _)
StripLeft(s, chars) ==
    IF Len(s) > 0 /\ s[1] \in chars THEN StripLeft(Tail(s), chars) ELSE s

RECURSIVE StripRight(_, _)
StripRight(s, chars) ==
    IF Len(s) > 0 /\ s[Len(s)] \in chars
    THEN StripRight(SubSeq(s, 1, Len(s) - 1), chars)
    ELSE s

Strip(s, chars) == StripRight(StripLeft(s, chars), chars)

Blank == {SP, NL}

\* str.lower(), symbol by symbol.
LowerSym(c) == IF c \in {"True", "TRUE"} THEN "true" ELSE c
Lower(s) == [i \in 1..Len(s) |-> LowerSym(s[i])]

\* dict.get(key, ""): a config is a function from keys to values.
Get(config, key) == IF key \in DOMAIN config THEN config[key] ELSE <<>>

\* lines 41-60: one line of the manifest; a section header changes no entry, and a
\* key = value line sets the key whatever the section is.
ParseLine(config, raw) ==
    LET line == Strip(raw, Blank)
        i == FindSym(line, EQ, 1)
    IN  IF Len(line) > 0 /\ line[1] = "[" /\ line[Len(line)] = "]" THEN config
        ELSE IF i = 0 THEN config
        ELSE LET key == Strip(SubSeq(line, 1, i - 1), Blank)
                 value == Strip(Strip(Strip(SubSeq(line, i + 1, Len(line)), Blank),
                                      {DQ}), {"'"})
             IN  (key :> value) @@ config

RECURSIVE ParseLines(_, _)
ParseLines(config, lines) ==
    IF lines = <<>> THEN config
    ELSE ParseLines(ParseLine(config, Head(lines)), Tail(lines))

EmptyConfig == [k \in {} |-> <<>>]

parse_wally_toml(content) == ParseLines(EmptyConfig, Split(content, NL))

\* lines 67-80: the row of a package; without a formattedName the name stands in, its
\* "raild3x/" removed.
generate_table_row(package, docs_link) ==
    LET given == Get(package, <<"formattedName">>)
        package_name == Get(package, <<"name">>)
        formatted_name == IF given = <<>> THEN Replace(package_name, <<"raild3x/">>, <<>>)
                          ELSE given
    IN  <<"| [">> \o formatted_name \o <<"](", docs_link, "/api/">>
        \o Get(package, <<"docsLink">>) \o <<") | ", BT>> \o formatted_name \o <<" = ", DQ>>
        \o package_name \o <<"@">> \o Get(package, <<"version">>) \o <<DQ, BT, " | ">>
        \o Get(package, <<"description">>) \o <<" |">>

\* line 133
IsIgnored(config) == Lower(Get(config, <<"ignore">>)) = <<"true">>

IsUnreleased_Never(config) == FALSE

\* line 141
IsUnreleased(config) == Lower(Get(config, <<"unreleased">>)) = <<"true">>

TableHead == <<"| Package | Latest Version | Description |", NL,
               "|---------|----------------|-------------|", NL>>

UnreleasedHead ==
    <<NL, "# Unreleased Packages", NL, NL, "> Warning: unreleased", NL, NL>> \o TableHead

\* lines 148-170: the text of README.md.
ReadmeContent(repo_name, released_packages, unreleased_packages) ==
    <<repo_name, " is a collection of Wally packages", NL, NL, "# Packages", NL, NL>>
    \o TableHead
    \o (IF released_packages # <<>> THEN Join(released_packages, NL) \o <<NL>> ELSE <<>>)
    \o (IF unreleased_packages # <<>>
        THEN UnreleasedHead \o Join(unreleased_packages, NL) \o <<NL>>
        ELSE <<>>)

\* The manifest of package n with its flags: "absent", "true" or "false" each.
FlagLine(key, v) == IF v = "absent" THEN <<>> ELSE <<NL, key, SP, EQ, SP, v>>

ReadmeManifest(n, ignore, unreleased) ==
    PackageHeader \o <<"name", SP, EQ, SP, DQ, "raild3x/", n, DQ, NL>>
    \o VersionLine(V100) \o <<NL, "[", "custom", "]">>
    \o FlagLine("ignore", ignore) \o FlagLine("unreleased", unreleased)

FlagValues == {"absent", "true", "false"}

\* An entry of lib with the flags its manifest was written with.
Flagged(n, ignore, unreleased) ==
    [entry |-> Package(ReadmeManifest(n, ignore, unreleased), FALSE),
     manifest |-> TRUE, ignore |-> ignore, unreleased |-> unreleased]
Unflagged(e) == [entry |-> e, manifest |-> FALSE, ignore |-> "absent", unreleased |-> "absent"]

ReadmeChoices(n) ==
    { Unflagged(Absent), Unflagged(Stray), Unflagged(Package(None, FALSE)) }
    \cup { Flagged(n, i, u) : i \in FlagValues, u \in FlagValues }

ReadmePath == <<"README.md">>

InitReadme ==
    /\ script = "generateReadMe"
    /\ pc = "start"
    /\ \E choice \in [LibNames -> UNION { ReadmeChoices(n) : n \in LibNames }],
          hasLib \in BOOLEAN, hasReadme \in BOOLEAN :
          /\ \A n \in LibNames : choice[n] \in ReadmeChoices(n)
          /\ LET f == IF hasLib THEN ProjectFs([n \in LibNames |-> choice[n].entry])
                      ELSE BaseFs
                 g == IF hasReadme THEN write_text(f, ProjRoot \o ReadmePath, <<"old text">>)
                      ELSE f
             IN  /\ fs = g
                 /\ loc = [fs0 |-> g, choice |-> choice, repo_name |-> "", docs_link |-> "",
                           released_packages |-> <<>>, unreleased_packages |-> <<>>]
    /\ cwd = ScriptsDir
    /\ args = {}
    /\ queue = <<>>
    /\ out = <<>>
    /\ log = <<>>
    /\ exit = "running"

\* lines 84-97
Readme_Start ==
    /\ script = "generateReadMe" /\ pc = "start"
    /\ LET root == find_project_root(fs, cwd)
       IN  /\ cwd' = root
           /\ IF ~is_dir(fs, root \o SRC_DIR)
              THEN /\ out' = out \o <<NoLibMessage>>
                   /\ exit' = "1"
                   /\ pc' = "done"
              ELSE /\ pc' = "git_remote"
                   /\ UNCHANGED <<out, exit>>
    /\ UNCHANGED <<script, fs, args, queue, loc, log>>

\* How `git config --get remote.origin.url` can end: with a GitHub URL, with a URL the
\* pattern does not match, with a non-zero status, or git is not installed.
GitOutcomes == {"ok", "unparsable", "failed", "not found"}

\* lines 100-117 and 12-31: the owner and the name of the repository are read from the
\* remote URL; without them main returns 1 (FileNotFoundError is not caught).
Readme_Git ==
    /\ script = "generateReadMe" /\ pc = "git_remote"
    /\ \E outcome \in GitOutcomes :
          /\ log' = Append(log, Event("run", "git config", cwd, outcome \in {"ok", "unparsable"}))
          /\ IF outcome = "ok"
             THEN /\ loc' = [loc EXCEPT !.repo_name = "ModulesOnRails",
                                        !.docs_link = "https://raild3x.github.io/ModulesOnRails"]
                  /\ queue' = Sorted(iterdir(fs, cwd \o SRC_DIR))
                  /\ pc' = "loop"
                  /\ UNCHANGED <<out, exit>>
             ELSE /\ out' = out \o <<CASE outcome = "unparsable" ->
                                            "Error: Could not parse remote URL"
                                       [] outcome = "failed" ->
                                            "Error: Could not get git remote URL"
                                       [] OTHER -> "FileNotFoundError">>
                  /\ exit' = IF outcome = "not found" THEN "crash" ELSE "1"
                  /\ pc' = "done"
                  /\ UNCHANGED <<loc, queue>>
    /\ UNCHANGED <<script, fs, cwd, args>>

\* lines 118-125: an entry that is no directory, or has no wally.toml, gives no row.
Readme_Skip ==
    /\ script = "generateReadMe" /\ pc = "loop"
    /\ queue # <<>>
    /\ ~is_dir(fs, Head(queue)) \/ ~is_file(fs, Head(queue) \o <<"wally.toml">>)
    /\ queue' = Tail(queue)
    /\ UNCHANGED <<script, pc, fs, cwd, args, loc, out, log, exit>>

\* lines 127-145: the manifest is parsed; an ignored package gives no row, an unreleased
\* one a row of the second table, any other a row of the first.
Readme_Package ==
    /\ script = "generateReadMe" /\ pc = "loop"
    /\ queue # <<>>
    /\ is_dir(fs, Head(queue)) /\ is_file(fs, Head(queue) \o <<"wally.toml">>)
    /\ LET config == parse_wally_toml(fs[Head(queue) \o <<"wally.toml">>].data)
           table_row == generate_table_row(config, loc.docs_link)
       IN  IF IsIgnored(config) THEN loc' = loc
           ELSE IF IsUnreleased(config)
           THEN loc' = [loc EXCEPT !.unreleased_packages = Append(@, table_row)]
           ELSE loc' = [loc EXCEPT !.released_packages = Append(@, table_row)]
    /\ queue' = Tail(queue)
    /\ UNCHANGED <<script, pc, fs, cwd, args, out, log, exit>>

\* lines 147-178: README.md is written anew.
Readme_Write ==
    /\ script = "generateReadMe" /\ pc = "loop"
    /\ queue = <<>>
    /\ fs' = write_text(fs, cwd \o ReadmePath,
                        ReadmeContent(loc.repo_name, loc.released_packages,
                                      loc.unreleased_packages))
    /\ log' = Append(log, Event("write", "", cwd \o ReadmePath, TRUE))
    /\ out' = out \o <<"README.md has been generated successfully.">>
    /\ exit' = "0"
    /\ pc' = "done"
    /\ UNCHANGED <<script, cwd, args, queue, loc>>

NextReadme == Readme_Start \/ Readme_Git \/ Readme_Skip \/ Readme_Package \/ Readme_Write

-----------------------------------------------------------------------------
(* The five scripts *)

Init == InitClear \/ InitSetup \/ InitPublish \/ InitTests \/ InitReadme

Next == NextClear \/ NextSetup \/ NextPublish \/ NextTests \/ NextReadme

Spec == Init /\ [][Next]_vars

\* publish.py alone.
SpecPublish == InitPublish /\ [][NextPublish]_vars

-----------------------------------------------------------------------------
(* Exit codes and subprocess failures *)

FailedRun == \E i \in 1..Len(log) : log[i].op = "run" /\ ~log[i].ok

\* What is printed when a missing directory, a missing manifest, a missing version, an
\* unusable remote URL or an invalid input is detected.
FailureMessages ==
    { NoLibMessage, "Package directory does not exist.", "Could not find wally.toml",
      "Could not find the version number in wally.toml.", "ValueError", "IndexError",
      "Error: Could not parse remote URL", "Error: Could not get git remote URL",
      "FileNotFoundError" }

FailureDetected == FailedRun \/ \E i \in 1..Len(out) : out[i] \in FailureMessages

\* C4: main returns 1 whenever a failure was detected during the run (a missing lib or
\* package directory, a missing manifest, a failed or missing subprocess, invalid input)
\* and 0 only when none was; a failed `wally publish` or git/rojo command gives 1.
C4_ExitCodes ==
    pc = "done" => ((exit # "0") <=> FailureDetected)

\* C5: once a subprocess call has failed, no later step of the script is executed: no
\* further subprocess is run and no further file is written, moved or deleted.
C5_AbortOnFailure ==
    \A i \in 1..Len(log) : (log[i].op = "run" /\ ~log[i].ok) => i = Len(log)

\* A version text that does not consist of exactly three dot-separated numbers.
Malformed(v) ==
    LET parts == Split(v, DOT)
    IN  Len(parts) # 3 \/ \E i \in 1..Len(parts) : ~IsIntLiteral(parts[i])

\* C6: when the version of the manifest is malformed (fewer or more than three components,
\* or a component that is no number) and the user asks publish.py for an increment, the
\* script prints the failure, ends with exit code 1 and leaves the manifest unchanged.
C6_MalformedRejected ==
    (script = "publish" /\ loc.increment_type # "" /\ Malformed(loc.current_version)) =>
        LET wally_toml == loc.package_dir \o <<"wally.toml">>
        IN  /\ pc = "done"
            /\ exit # "0"
            /\ \E i \in 1..Len(out) : out[i] \in FailureMessages
            /\ fs[wally_toml] = loc.fs0[wally_toml]

\* C8: when the user confirms publishing, default.project.json is written after the
\* package directory is cleared and before `wally publish` is invoked, is there while that
\* subprocess runs, and is gone when main returns, whether the publishing succeeded or not.
C8_DescriptorLifecycle ==
    (script = "publish" /\ loc.publish = "y") =>
        /\ (pc = "publishing" => is_file(fs, Descriptor))
        /\ (pc \in {"run_publish", "publishing", "cleanup", "rebuild", "done"} =>
               \E i, j \in 1..Len(log) :
                   /\ i < j
                   /\ log[i] = Event("clear", "", loc.package_dir, TRUE)
                   /\ log[j] = Event("write", "", Descriptor, TRUE)
                   /\ \A k \in 1..Len(log) : log[k].cmd = "wally publish" => j < k)
        /\ (pc = "done" => ~exists(fs, Descriptor))

\* A run whose `wally publish` failed, on a package that had a default.project.json.
C8_Witness ==
    /\ script = "publish" /\ pc = "done" /\ loc.publish = "y"
    /\ exists(loc.fs0, Descriptor)
    /\ \E k \in 1..Len(log) : log[k] = Event("run", "wally publish", loc.package_dir, FALSE)
    /\ ~exists(fs, Descriptor)

-----------------------------------------------------------------------------
(* Package selection *)

AllNames == LibNames \cup {NoSuchName}

\* A subdirectory of lib, as the run found it, that the arguments select.
SelectedDir0(n) == is_dir(loc.fs0, Lib \o <<n>>) /\ (args = {} \/ n \in args)

\* clear_package_dir was called on lib/n: the first step of processing it.
Processed(n) == \E i \in 1..Len(log) : log[i] = Event("clear", "", Lib \o <<n>>, TRUE)

\* Nothing at or below lib/n was created, removed or changed.
Untouched(n) ==
    \A q \in DOMAIN fs \cup DOMAIN loc.fs0 :
        (IsPrefix(Lib \o <<n>>, q)) =>
            q \in DOMAIN fs /\ q \in DOMAIN loc.fs0 /\ fs[q] = loc.fs0[q]

-----------------------------------------------------------------------------
(* The generated README *)

\* The row of package n, whose manifest names it raild3x/n at version 1.0.0 and gives no
\* formattedName, docsLink or description.
ExpectedRow(n, docs_link) ==
    <<"| [", n, "](", docs_link, "/api/", ") | ", BT, n, " = ", DQ, "raild3x/", n, "@">>
    \o V100 \o <<DQ, BT, " | ", " |">>

SortedNames == [i \in 1..MaxLib |-> NameOrder[i]]

\* The rows of a table: of the packages that satisfy Test, in the order of their names.
RowsWhere(Test(_), docs_link) ==
    LET names == SelectSeq(SortedNames, Test)
    IN  [i \in 1..Len(names) |-> ExpectedRow(names[i], docs_link)]

\* C10: every subdirectory of lib with a wally.toml gives no row when its manifest has
\* ignore = true, one row of the Unreleased Packages table when it is not ignored and has
\* unreleased = true, and one row of the Packages table otherwise; the rows of a table are
\* in the sorted order of the directory names, and README.md holds nothing else.
C10_ReadmeTables ==
    (script = "generateReadMe" /\ pc = "done" /\ exit = "0") =>
        LET HasRow(n) == loc.choice[n].manifest /\ loc.choice[n].ignore # "true"
            InMain(n) == HasRow(n) /\ loc.choice[n].unreleased # "true"
            InUnreleased(n) == HasRow(n) /\ loc.choice[n].unreleased = "true"
        IN  /\ is_file(fs, ProjRoot \o ReadmePath)
            /\ fs[ProjRoot \o ReadmePath].data =
                   ReadmeContent("ModulesOnRails",
                                 RowsWhere(InMain, loc.docs_link),
                                 RowsWhere(InUnreleased, loc.docs_link))

\* An old README.md replaced by one with a row in each table: the first package is
\* unreleased, the second is plain.
C10_Witness ==
    /\ script = "generateReadMe" /\ pc = "done" /\ exit = "0"
    /\ is_file(loc.fs0, ProjRoot \o ReadmePath)
    /\ loc.choice[NameOrder[1]].manifest /\ loc.choice[NameOrder[1]].unreleased = "true"
    /\ loc.choice[NameOrder[1]].ignore = "false"
    /\ loc.choice[NameOrder[2]].manifest /\ loc.choice[NameOrder[2]].unreleased = "absent"
    /\ loc.choice[NameOrder[2]].ignore = "absent"
    /\ Len(loc.released_packages) = 1 /\ Len(loc.unreleased_packages) = 1

-----------------------------------------------------------------------------
(* find_project_root, from any starting directory *)

\* The most directories between the filesystem root and the starting directory.
MaxUp == 3

\* The chain of directories a/b/c/... below the filesystem root.
UpNames == <<"a", "b", "c", "d">>
UpDir(k) == [i \in 1..k |-> UpNames[i]]
UpDirs == { UpDir(k) : k \in 0..MaxUp }

\* What a directory of the chain has under the name lib: nothing, a file or a directory.
LibKinds == {"absent", "file", "dir"}

\* The tree in which the directory at depth k has the lib entry kinds[k].
UpFs(kinds) ==
    [q \in UpDirs \cup { UpDir(k) \o SRC_DIR : k \in { j \in 0..MaxUp : kinds[j] # "absent" } }
        |-> IF q \in UpDirs \/ kinds[Len(q) - 1] = "dir" THEN Dir ELSE File(<<"notes">>)]

InitFindRoot ==
    /\ script = "find_project_root"
    /\ pc = "call"
    /\ cwd \in UpDirs
    /\ \E kinds \in [0..MaxUp -> LibKinds] :
          /\ fs = UpFs(kinds)
          /\ loc = [fs0 |-> UpFs(kinds), start |-> cwd]
    /\ args = {}
    /\ queue = <<>>
    /\ out = <<>>
    /\ log = <<>>
    /\ exit = "running"

\* clearPackages.py line 41: main calls find_project_root().
CallFindRoot ==
    /\ script = "find_project_root" /\ pc = "call"
    /\ cwd' = find_project_root(fs, cwd)
    /\ pc' = "returned"
    /\ UNCHANGED <<script, fs, args, queue, loc, out, log, exit>>

\* clearPackages.py lines 44-46: without lib in the working directory main returns 1.
CheckSrcDir ==
    /\ script = "find_project_root" /\ pc = "returned"
    /\ IF ~is_dir(fs, cwd \o SRC_DIR)
       THEN /\ out' = out \o <<NoLibMessage>>
            /\ exit' = "1"
            /\ pc' = "done"
       ELSE /\ pc' = "found"
            /\ UNCHANGED <<out, exit>>
    /\ UNCHANGED <<script, fs, cwd, args, queue, loc, log>>

SpecFindRoot == InitFindRoot /\ [][CallFindRoot \/ CheckSrcDir]_vars

\* The ancestors of directory d, d itself and the filesystem root included, that have a
\* lib subdirectory.
AncestorsWithLib(f, d) ==
    { e \in { SubSeq(d, 1, k) : k \in 0..Len(d) } : is_dir(f, e \o SRC_DIR) }

\* C11: when find_project_root has returned, the working directory is the nearest
\* ancestor of the starting directory (that directory and the filesystem root included)
\* that has a lib subdirectory; when there is none the working directory is the starting
\* directory and the calling script returns 1 without changing any file.
C11_ProjectRoot ==
    (script = "find_project_root" /\ pc # "call") =>
        LET found == AncestorsWithLib(loc.fs0, loc.start)
        IN  /\ fs = loc.fs0
            /\ IF found # {}
               THEN /\ cwd \in found
                    /\ \A e \in found : Len(e) <= Len(cwd)
                    /\ pc # "done"
               ELSE /\ cwd = loc.start
                    /\ pc \in {"returned", "done"}
                    /\ pc = "done" => exit = "1"

-----------------------------------------------------------------------------
(* Publishing declined *)

\* The lines of a manifest that do not hold the version key.
OtherManifestLines(content) ==
    SelectSeq(Split(content, NL),
              LAMBDA line : ~(Len(line) > 0 /\ <<line[1]>> = VersionKey))

\* C12: when the user declines publishing, publish.py returns 0 having run no subprocess,
\* removed nothing and written no default.project.json; every path is as the run found
\* it except the package's wally.toml, of which only the version may differ, and after an
\* increment that version is the incremented one.
C12_PublishSkipped ==
    (script = "publish" /\ pc = "done" /\ loc.publish = "n") =>
        LET wally_toml == loc.package_dir \o <<"wally.toml">>
        IN  /\ exit = "0"
            /\ \A i \in 1..Len(log) : log[i] = Event("write", "", wally_toml, TRUE)
            /\ DOMAIN fs = DOMAIN loc.fs0
            /\ \A q \in DOMAIN fs : q # wally_toml => fs[q] = loc.fs0[q]
            /\ OtherManifestLines(fs[wally_toml].data)
                   = OtherManifestLines(loc.fs0[wally_toml].data)
            /\ IF loc.increment_type = ""
               THEN fs[wally_toml] = loc.fs0[wally_toml]
               ELSE get_current_version(fs[wally_toml].data)
                        = increment_version(loc.current_version, loc.increment_type).value

=============================================================================
